---------------------------- MODULE Spec2Model ----------------------------
(***************************************************************************)
(* A model of the CHIP-8 interpreter of src/src/chip_8.rs: the memory, the *)
(* register file, the framebuffer, the call stack, the two timer counters  *)
(* with their decay thread, the decoder and the execute step.              *)
(***************************************************************************)
EXTENDS Integers, Sequences, FiniteSets, TLC

(***************************************************************************)
(* Program constants (impl Chip8VM, chip_8.rs:323-357).                    *)
(***************************************************************************)
RAM_SIZE == 4096
RAM_ROM_START == 512
FONT_SIZE == 80
FONT_START == 80
DISPLAY_WIDTH == 64
DISPLAY_HEIGHT == 32
\* The largest value of a u8 and of a u16 (U12 is an alias of u16).
U8_MAX == 255
U16_MAX == 65535
\* The counters TimersWrapper::new starts with.
DELAY_INIT == 120
BUZZER_INIT == 0

FONT ==
  << 240, 144, 144, 144, 240,   32,  96,  32,  32, 112,
     240,  16, 240, 128, 240,  240,  16, 240,  16, 240,
     144, 144, 240,  16,  16,  240, 128, 240,  16, 240,
     240, 128, 240, 144, 240,  240,  16,  32,  64,  64,
     240, 144, 240, 144, 240,  240, 144, 240,  16, 240,
     240, 144, 240, 144, 144,  224, 144, 224, 144, 224,
     240, 128, 128, 128, 240,  224, 144, 144, 144, 224,
     240, 128, 240, 128, 240,  240, 128, 240, 128, 128 >>

DISPLAY_EMPTY == [y \in 0..(DISPLAY_HEIGHT - 1) |-> [x \in 0..(DISPLAY_WIDTH - 1) |-> FALSE]]

(***************************************************************************)
(* Bounds of the model.                                                    *)
(***************************************************************************)
\* Sampled bytes lie within EdgeWidth of 0, of 128 and of 255.
EdgeWidth == 1
\* Program images are tried at lengths 0..MaxSmallLen and within MaxNearLen of
\* the capacity RAM_SIZE - RAM_ROM_START.
MaxSmallLen == 3
MaxNearLen == 2

Regs == 0..15
Bytes == 0..U8_MAX
ByteSamples ==
  {v \in Bytes : \/ v <= EdgeWidth
                 \/ v >= U8_MAX - EdgeWidth
                 \/ (v >= 128 - EdgeWidth /\ v <= 128 + EdgeWidth)}

(***************************************************************************)
(* Bit arithmetic on machine integers.                                     *)
(***************************************************************************)
RECURSIVE Pow2(_)
Pow2(k) == IF k = 0 THEN 1 ELSE 2 * Pow2(k - 1)

Shr(v, k) == v \div Pow2(k)
Bit(v, k) == Shr(v, k) % 2

RECURSIVE BitAnd(_, _)
BitAnd(a, b) ==
  IF a = 0 \/ b = 0 THEN 0
  ELSE (a % 2) * (b % 2) + 2 * BitAnd(a \div 2, b \div 2)

RECURSIVE BitOr(_, _)
BitOr(a, b) ==
  IF a = 0 THEN b
  ELSE IF b = 0 THEN a
  ELSE (IF a % 2 = 1 \/ b % 2 = 1 THEN 1 ELSE 0) + 2 * BitOr(a \div 2, b \div 2)

RECURSIVE BitXor(_, _)
BitXor(a, b) ==
  IF a = 0 THEN b
  ELSE IF b = 0 THEN a
  ELSE ((a + b) % 2) + 2 * BitXor(a \div 2, b \div 2)

(***************************************************************************)
(* impl From<u16> for Chip8Instr: an instruction is a tuple, its variant   *)
(* name first and its payload after.                                       *)
(***************************************************************************)
\* A variant of x without the mask: the family nibble stays in it.
field_x_unmasked(input) == Shr(input, 8)

\* The payload fields of a word: x, y, n, nn, nnn.
field_x(input) == BitAnd(Shr(input, 8), 15)
field_y(input) == BitAnd(Shr(input, 4), 15)
field_n(input) == BitAnd(input, 15)
field_nn(input) == BitAnd(input, 255)
field_nnn(input) == BitAnd(input, 4095)

from(input) ==
  LET x == field_x(input)
      y == field_y(input)
      n == field_n(input)
      nn == field_nn(input)
      nnn == field_nnn(input)
      family == Shr(input, 12)
  IN CASE family = 0 /\ n = 14 -> <<"Return">>
       [] family = 0 -> <<"Clear">>
       [] family = 1 -> <<"Jump", nnn>>
       [] family = 2 -> <<"Call", nnn>>
       [] family = 3 -> <<"IfNE", x, nn>>
       [] family = 4 -> <<"IfE", x, nn>>
       [] family = 5 -> <<"IfRNE", x, y>>
       [] family = 6 -> <<"Set", x, nn>>
       [] family = 7 -> <<"Add", x, nn>>
       [] family = 8 /\ n = 0 -> <<"SetR", x, y>>
       [] family = 8 /\ n # 0 /\ n < 4 -> <<"BitOp", x, y, n>>
       [] family = 8 /\ (n = 6 \/ n = 14) -> <<"ShiftOp", x, y, n>>
       [] family = 8 /\ n >= 4 /\ n # 6 /\ n # 14 -> <<"ArithmOp", x, y, n>>
       [] family = 9 -> <<"IfRE", x, y>>
       [] family = 10 -> <<"SetI", nnn>>
       [] family = 11 -> <<"JumpOff", nnn>>
       [] family = 12 -> <<"Rand", x, nn>>
       [] family = 13 -> <<"Display", x, y, n>>
       [] family = 14 /\ n = 14 -> <<"KeyUp", x>>
       [] family = 14 /\ n # 14 -> <<"KeyDown", x>>
       [] family = 15 /\ nn = 7 -> <<"GetDelay", x>>
       [] family = 15 /\ nn = 10 -> <<"GetKey", x>>
       [] family = 15 /\ nn = 21 -> <<"SetDelay", x>>
       [] family = 15 /\ nn = 24 -> <<"SetBuzzer", x>>
       [] family = 15 /\ nn = 30 -> <<"IncrI", x>>
       [] family = 15 /\ nn = 41 -> <<"Char", x>>
       [] family = 15 /\ nn = 51 -> <<"Decimal", x>>
       [] family = 15 /\ nn = 85 -> <<"Save", x>>
       [] family = 15 /\ nn = 101 -> <<"Load", x>>
       [] OTHER -> <<"Unknown">>


(***************************************************************************)
(* The state.                                                              *)
(***************************************************************************)
VARIABLES
  ram,          \* Chip8VM.ram: [u8; RAM_SIZE]
  display,      \* Chip8VM.display: [[bool; DISPLAY_WIDTH]; DISPLAY_HEIGHT]
  v,            \* Registers.v0 .. vf, by index
  pc,           \* Registers.pc
  i,            \* Registers.i
  stack,        \* Chip8VM.stack
  options,      \* Chip8VM.options: the three instruction toggles
  delay,        \* Timers.delay
  buzzer,       \* Timers.buzzer
  timers_owner, \* who holds the mutex of TimersWrapper.timers
  started,      \* the bool of TimersWrapper.lock
  start_owner,  \* who holds the mutex of TimersWrapper.lock
  tpc,          \* where the decay thread is
  mainpc,       \* where the caller is
  rom_arg,      \* the image last handed to load_rom
  word,         \* the raw instruction last fetched (or handed to from)
  instr         \* the instruction last decoded

vars == <<ram, display, v, pc, i, stack, options, delay, buzzer, timers_owner,
          started, start_owner, tpc, mainpc, rom_arg, word, instr>>

\* The variables of the machine the execution loop owns.
machine == <<ram, display, v, pc, i, stack>>
\* The variables of the timer subsystem.
timing == <<delay, buzzer, timers_owner, started, start_owner, tpc>>

\* Chip8VM::init_ram.
init_ram(font) ==
  [a \in 0..(RAM_SIZE - 1) |->
     IF a >= FONT_START /\ a < FONT_START + FONT_SIZE
     THEN font[a - FONT_START + 1] ELSE 0]

\* Chip8VMOptions: the toggles that change an instruction.
OptionSets == [incr_i_when_mem : BOOLEAN, new_jump_off : BOOLEAN, old_shift : BOOLEAN]
DefaultOptions == [incr_i_when_mem |-> FALSE, new_jump_off |-> FALSE, old_shift |-> FALSE]

NoInstr == <<"None">>

\* Chip8VM::new with the options drawn from opts, and TimersWrapper::new.
InitWith(opts) ==
  /\ ram = init_ram(FONT)
  /\ display = DISPLAY_EMPTY
  /\ v = [r \in Regs |-> 0]
  /\ pc = RAM_ROM_START
  /\ i = 0
  /\ stack = <<>>
  /\ options \in opts
  /\ delay = DELAY_INIT
  /\ buzzer = BUZZER_INIT
  /\ timers_owner = "none"
  /\ started = FALSE
  /\ start_owner = "none"
  /\ tpc = "lock"
  /\ mainpc = "new"
  /\ rom_arg = <<>>
  /\ word = 0
  /\ instr = NoInstr

Init == InitWith({DefaultOptions})

(***************************************************************************)
(* Chip8VM::load_rom.  A program image is a sequence of bytes.             *)
(***************************************************************************)
\* The image of length len whose k-th byte is fill + (k-1) * stride (mod 256).
Image(len, fill, stride) == [k \in 1..len |-> (fill + (k - 1) * stride) % 256]

\* A variant of the assertion with < for <=: the full-size image is rejected.
rom_fits_strict(rom) == Len(rom) < RAM_SIZE - RAM_ROM_START

\* The assertion load_rom starts with.
rom_fits(rom) == Len(rom) <= RAM_SIZE - RAM_ROM_START

\* A variant of the copy that starts one byte late.
load_rom_ram_shifted(mem, rom) ==
  LET end == RAM_ROM_START + 1 + Len(rom)
  IN [a \in 0..(RAM_SIZE - 1) |->
        IF a >= RAM_ROM_START + 1 /\ a < end /\ a < RAM_SIZE
        THEN rom[a - RAM_ROM_START] ELSE mem[a]]

\* The copy_from_slice of load_rom.
load_rom_ram(mem, rom) ==
  LET end == RAM_ROM_START + Len(rom)
  IN [a \in 0..(RAM_SIZE - 1) |->
        IF a >= RAM_ROM_START /\ a < end THEN rom[a - RAM_ROM_START + 1] ELSE mem[a]]

\* load_rom(rom) for a rom of roms, on the machine as constructed (as main and
\* the tests call it); a failed assertion panics before anything is written.
LoadRom(roms) ==
  /\ mainpc = "new"
  /\ \E image \in roms :
       /\ rom_arg' = image
       /\ IF rom_fits(image)
          THEN /\ ram' = load_rom_ram(ram, image)
               /\ mainpc' = "ready"
          ELSE /\ mainpc' = "panic"
               /\ UNCHANGED ram
  /\ UNCHANGED <<display, v, pc, i, stack, options, word, instr>>
  /\ UNCHANGED timing

(***************************************************************************)
(* The decoder alone: from applied to every 16-bit word.                   *)
(***************************************************************************)
InitDecode ==
  /\ ram = init_ram(FONT)
  /\ display = DISPLAY_EMPTY
  /\ v = [r \in Regs |-> 0]
  /\ pc = RAM_ROM_START
  /\ i = 0
  /\ stack = <<>>
  /\ options = DefaultOptions
  /\ delay = DELAY_INIT
  /\ buzzer = BUZZER_INIT
  /\ timers_owner = "none"
  /\ started = FALSE
  /\ start_owner = "none"
  /\ tpc = "lock"
  /\ mainpc = "new"
  /\ rom_arg = <<>>
  /\ word \in 0..U16_MAX
  /\ instr = NoInstr

Decode ==
  /\ instr = NoInstr
  /\ instr' = from(word)
  /\ UNCHANGED <<ram, display, v, pc, i, stack, options, mainpc, rom_arg, word>>
  /\ UNCHANGED timing

SpecDecode == InitDecode /\ [][Decode]_vars

(***************************************************************************)
(* Chip8VM::execute, on a record of the fields it reads and writes.  A     *)
(* panic sets the record's panic field; what was written before it stays.  *)
(***************************************************************************)
Machine ==
  [ram |-> ram, display |-> display, v |-> v, pc |-> pc, i |-> i,
   stack |-> stack, delay |-> delay, buzzer |-> buzzer, panic |-> FALSE]

\* Registers::get and Registers::set (the register index is always below 16).
get(s, reg) == s.v[reg]
set(s, reg, value) == [s EXCEPT !.v[reg] = value]

\* A variant in which a panic is no more than a skipped instruction.
panic_skips(s) == s

\* panic!, a failed expect or assert, an index out of bounds.
panic(s) == [s EXCEPT !.panic = TRUE]

\* Chip8VM::incr_pc.
incr_pc(s) == [s EXCEPT !.pc = s.pc + 2]

\* self.ram[addr] = value, which panics out of bounds.
ram_write(s, addr, value) ==
  IF s.panic THEN s
  ELSE IF addr >= RAM_SIZE THEN panic(s)
  ELSE [s EXCEPT !.ram[addr] = value]

\* A variant of Call that pushes the address of the Call itself.
Call_pushes_call_site(s, nnn) ==
  [s EXCEPT !.stack = Append(s.stack, s.pc - 2), !.pc = nnn]

\* Chip8Instr::Call(nnn): the pc on entry, already advanced, is pushed.
Call(s, nnn) == [s EXCEPT !.stack = Append(s.stack, s.pc), !.pc = nnn]

\* Chip8Instr::Return: pop into pc; expect panics on an empty stack.
Return(s) ==
  IF s.stack = <<>> THEN panic(s)
  ELSE [s EXCEPT !.pc = s.stack[Len(s.stack)],
                 !.stack = SubSeq(s.stack, 1, Len(s.stack) - 1)]

\* A variant of the skip with the condition negated.
skip_unless(s, cond) == IF cond THEN s ELSE incr_pc(s)

\* if cond { self.incr_pc(); } of IfNE, IfE, IfRNE and IfRE.
skip_if(s, cond) == IF cond THEN incr_pc(s) ELSE s

\* u8::overflowing_add and u8::overflowing_sub: <<result, overflowed>>.
overflowing_add(a, b) == <<(a + b) % 256, a + b > U8_MAX>>
overflowing_sub(a, b) == <<(a - b + 256) % 256, a < b>>

\* Chip8Instr::ArithmOp(x, y, op).
ArithmOp(s, x, y, op) ==
  IF op \notin {4, 5, 7} THEN panic(s)
  ELSE LET ro == CASE op = 4 -> overflowing_add(get(s, x), get(s, y))
                   [] op = 5 -> overflowing_sub(get(s, x), get(s, y))
                   [] op = 7 -> overflowing_sub(get(s, y), get(s, x))
           o == IF op = 5 \/ op = 7 THEN ~ro[2] ELSE ro[2]
       IN set(set(s, 15, IF o THEN 1 ELSE 0), x, ro[1])

\* A variant of ShiftOp that writes VF before Vx, as ArithmOp does.
ShiftOp_flag_first(s, x, y, op, old_shift) ==
  LET s0 == IF old_shift THEN set(s, x, get(s, y)) ELSE s
      val == get(s0, x)
  IN IF op = 6
     THEN set(set(s0, 15, IF BitAnd(val, 1) = 1 THEN 1 ELSE 0), x,
              Shr(BitAnd(val, 254), 1))
     ELSE IF op = 14
     THEN set(set(s0, 15, IF BitAnd(val, 128) # 0 THEN 1 ELSE 0), x,
              BitAnd(val, 127) * 2)
     ELSE panic(s0)

\* Chip8Instr::ShiftOp(x, y, op).
ShiftOp(s, x, y, op, old_shift) ==
  LET s0 == IF old_shift THEN set(s, x, get(s, y)) ELSE s
      val == get(s0, x)
  IN IF op = 6
     THEN set(set(s0, x, Shr(BitAnd(val, 254), 1)), 15,
              IF BitAnd(val, 1) = 1 THEN 1 ELSE 0)
     ELSE IF op = 14
     THEN set(set(s0, x, BitAnd(val, 127) * 2), 15,
              IF BitAnd(val, 128) # 0 THEN 1 ELSE 0)
     ELSE panic(s0)

\* Chip8Instr::BitOp(x, y, op).
BitOp(s, x, y, op) ==
  CASE op = 1 -> set(s, x, BitOr(get(s, x), get(s, y)))
    [] op = 2 -> set(s, x, BitAnd(get(s, x), get(s, y)))
    [] op = 3 -> set(s, x, BitXor(get(s, x), get(s, y)))
    [] OTHER -> panic(s)

\* The inner loop of draw_sprite: the columns of row curr_y from curr_x on.
RECURSIVE draw_columns(_, _, _, _, _, _)
draw_columns(s, x, y, sprite_addr, curr_y, curr_x) ==
  IF curr_x >= x + 8 THEN s
  ELSE IF curr_x >= DISPLAY_WIDTH THEN s
  ELSE LET pixel_x == x + 8 - (curr_x - x)
       IN IF pixel_x >= DISPLAY_WIDTH THEN s
          ELSE LET pixel == s.display[curr_y][pixel_x]
                   sprite_value ==
                     BitAnd(Shr(s.ram[sprite_addr + (curr_y - y)], curr_x - x), 1) = 1
                   s1 == [s EXCEPT !.v[15] = IF pixel /\ sprite_value THEN 1 ELSE 0,
                                   !.display[curr_y][pixel_x] = (pixel # sprite_value)]
               IN draw_columns(s1, x, y, sprite_addr, curr_y, curr_x + 1)

\* The outer loop of draw_sprite: the rows from curr_y on.
RECURSIVE draw_rows(_, _, _, _, _, _)
draw_rows(s, x, y, sprite_addr, sprite_height, curr_y) ==
  IF curr_y >= y + sprite_height THEN s
  ELSE IF curr_y >= DISPLAY_HEIGHT THEN s
  ELSE draw_rows(draw_columns(s, x, y, sprite_addr, curr_y, x),
                 x, y, sprite_addr, sprite_height, curr_y + 1)

\* Chip8VM::draw_sprite: the slice of the sprite's bytes panics out of bounds.
draw_sprite(s, x, y, sprite_addr, sprite_height) ==
  IF sprite_addr + sprite_height > RAM_SIZE THEN panic(s)
  ELSE draw_rows(s, x, y, sprite_addr, sprite_height, y)

\* Chip8VM::char_index.
char_index(c) == FONT_START + 5 * BitAnd(c, 15)

\* The loops of Chip8Instr::Save and Chip8Instr::Load, from register k to x.
RECURSIVE save_loop(_, _, _)
save_loop(s, k, x) ==
  IF k > x \/ s.panic THEN s
  ELSE save_loop(ram_write(s, s.i + k, get(s, k)), k + 1, x)

RECURSIVE load_loop(_, _, _)
load_loop(s, k, x) ==
  IF k > x \/ s.panic THEN s
  ELSE IF s.i + k >= RAM_SIZE THEN panic(s)
  ELSE load_loop(set(s, k, s.ram[s.i + k]), k + 1, x)

\* self.registers.i += x when the toggle is on.
advance_i(s, x, incr_i_when_mem) ==
  IF s.panic \/ ~incr_i_when_mem THEN s ELSE [s EXCEPT !.i = s.i + x]

\* The key of a character of the input line (its code point); 16 for no key.
key_of(ch) ==
  IF ch >= 48 /\ ch <= 57 THEN ch - 48
  ELSE IF ch >= 97 /\ ch <= 122 THEN ch - 97 + 10
  ELSE IF ch >= 65 /\ ch <= 90 THEN ch - 65 + 10
  ELSE 16

\* What an instruction takes from outside: the random byte, the first
\* character of the line read (-1: no character), and whether the build wraps
\* an overflowing u16 addition (release) or panics on it (debug).
NoInput == [rnd |-> 0, ch |-> -1, wraps |-> FALSE]

\* Chip8VM::execute(instruction), s.pc being already past the instruction.
execute(s, ins, opts, inp) ==
  LET op == ins[1] IN
  CASE op = "Clear" -> [s EXCEPT !.display = DISPLAY_EMPTY]
    [] op = "Return" -> Return(s)
    [] op = "Jump" -> [s EXCEPT !.pc = ins[2]]
    [] op = "Call" -> Call(s, ins[2])
    [] op = "IfNE" -> skip_if(s, get(s, ins[2]) = ins[3])
    [] op = "IfE" -> skip_if(s, get(s, ins[2]) # ins[3])
    [] op = "IfRNE" -> skip_if(s, get(s, ins[2]) = get(s, ins[3]))
    [] op = "Set" -> set(s, ins[2], ins[3])
    [] op = "Add" -> set(s, ins[2], (get(s, ins[2]) + ins[3]) % 256)
    [] op = "SetR" -> set(s, ins[2], get(s, ins[3]))
    [] op = "BitOp" -> BitOp(s, ins[2], ins[3], ins[4])
    [] op = "ArithmOp" -> ArithmOp(s, ins[2], ins[3], ins[4])
    [] op = "ShiftOp" -> ShiftOp(s, ins[2], ins[3], ins[4], opts.old_shift)
    [] op = "IfRE" -> skip_if(s, get(s, ins[2]) # get(s, ins[3]))
    [] op = "SetI" -> [s EXCEPT !.i = ins[2]]
    [] op = "JumpOff" ->
         IF opts.new_jump_off
         THEN [s EXCEPT !.pc = ins[2] + get(s, Shr(ins[2], 8))]
         ELSE [s EXCEPT !.pc = ins[2] + get(s, 0)]
    [] op = "Rand" -> set(s, ins[2], BitAnd(ins[3], inp.rnd))
    [] op = "Display" ->
         draw_sprite(s, get(s, ins[2]) % DISPLAY_WIDTH,
                     get(s, ins[3]) % DISPLAY_HEIGHT, s.i, ins[4])
    [] op = "KeyUp" -> s
    [] op = "KeyDown" -> s
    [] op = "GetDelay" -> set(s, ins[2], s.delay)
    [] op = "GetKey" ->
         IF inp.ch < 0 THEN panic(s)
         ELSE IF key_of(inp.ch) < 16
         THEN set(s, ins[2], BitAnd(key_of(inp.ch), 15))
         ELSE s
    [] op = "SetDelay" -> [s EXCEPT !.delay = get(s, ins[2])]
    [] op = "SetBuzzer" -> [s EXCEPT !.buzzer = get(s, ins[2])]
    [] op = "IncrI" ->
         IF s.i + get(s, ins[2]) <= U16_MAX
         THEN [s EXCEPT !.i = s.i + get(s, ins[2])]
         ELSE IF inp.wraps
         THEN [s EXCEPT !.i = (s.i + get(s, ins[2])) % (U16_MAX + 1)]
         ELSE panic(s)
    [] op = "Char" -> [s EXCEPT !.i = char_index(get(s, ins[2]))]
    [] op = "Decimal" ->
         LET x == get(s, ins[2])
         IN ram_write(ram_write(ram_write(s, s.i, x \div 100),
                                s.i + 1, (x % 100) \div 10),
                      s.i + 2, x % 10)
    [] op = "Save" -> advance_i(save_loop(s, 0, ins[2]), ins[2], opts.incr_i_when_mem)
    [] op = "Load" -> advance_i(load_loop(s, 0, ins[2]), ins[2], opts.incr_i_when_mem)
    [] OTHER -> panic(s)

\* Chip8VM::fetch_instruction: the big-endian word at pc; reading past the end
\* of ram panics.
fetch_panics(mem, at) == at + 1 >= RAM_SIZE
fetch_instruction(mem, at) == mem[at] * 256 + mem[at + 1]

(***************************************************************************)
(* Chip8VM::run_once, which is also the body of the loop of Chip8VM::run.  *)
(***************************************************************************)
\* The call stack is a Vec without a limit; the model stops a Call at MaxStack.
MaxStack == 2

TimerInstrs == {"GetDelay", "SetDelay", "SetBuzzer"}

\* rand::random::<u8>() as sampled.
RandBytes == ByteSamples

Inputs(s, ins) ==
  [rnd : IF ins[1] = "Rand" THEN RandBytes ELSE {0},
   ch : {-1},
   wraps : IF ins[1] = "IncrI" /\ s.i + get(s, ins[2]) > U16_MAX THEN BOOLEAN ELSE {FALSE}]

\* The fields of the record written back, and where the caller goes on.
Commit(s, next) ==
  /\ ram' = s.ram
  /\ display' = s.display
  /\ v' = s.v
  /\ pc' = s.pc
  /\ i' = s.i
  /\ stack' = s.stack
  /\ delay' = s.delay
  /\ buzzer' = s.buzzer
  /\ mainpc' = IF s.panic THEN "panic" ELSE next

RunOnce ==
  /\ mainpc = "ready"
  /\ IF fetch_panics(ram, pc)
     THEN /\ mainpc' = "panic"
          /\ UNCHANGED <<machine, delay, buzzer, timers_owner, word, instr>>
     ELSE LET ins == from(fetch_instruction(ram, pc))
              s == incr_pc(Machine)
          IN /\ word' = fetch_instruction(ram, pc)
             /\ instr' = ins
             /\ IF ins[1] = "GetKey"
                THEN \* blocked in read_line
                     /\ Commit(s, "wait_key")
                     /\ UNCHANGED timers_owner
                ELSE IF ins[1] \in TimerInstrs
                THEN \* self.timers.timers.lock()
                     /\ timers_owner = "none"
                     /\ timers_owner' = "main"
                     /\ Commit(s, "timers_cs")
                ELSE /\ ins[1] = "Call" => Len(stack) < MaxStack
                     /\ \E inp \in Inputs(s, ins) : Commit(execute(s, ins, options, inp), "ready")
                     /\ UNCHANGED timers_owner
  /\ UNCHANGED <<options, started, start_owner, tpc, rom_arg>>

\* The first character of the line read by GetKey, as sampled: the code points
\* at the edges of '0'-'9', 'A'-'Z', 'a'-'z', and -1 for a line without one.
KeyChars == {-1, 47, 48, 57, 58, 64, 65, 70, 71, 90, 91, 96, 97, 102, 103, 122, 123}

\* GetKey, once read_line returns.
ReadKey ==
  /\ mainpc = "wait_key"
  /\ \E c \in KeyChars :
       Commit(execute(Machine, instr, options, [rnd |-> 0, ch |-> c, wraps |-> FALSE]),
              "ready")
  /\ UNCHANGED <<options, timers_owner, started, start_owner, tpc, rom_arg, word, instr>>

\* A variant in which reading the delay counter also clears it.
TimersAccess_read_clears ==
  /\ mainpc = "timers_cs"
  /\ timers_owner = "main"
  /\ LET s == execute(Machine, instr, options, NoInput)
     IN Commit(IF instr[1] = "GetDelay" THEN [s EXCEPT !.delay = 0] ELSE s, "ready")
  /\ timers_owner' = "none"
  /\ UNCHANGED <<options, started, start_owner, tpc, rom_arg, word, instr>>

\* GetDelay, SetDelay and SetBuzzer, the lock held: the access, then the unlock.
TimersAccess ==
  /\ mainpc = "timers_cs"
  /\ timers_owner = "main"
  /\ Commit(execute(Machine, instr, options, NoInput), "ready")
  /\ timers_owner' = "none"
  /\ UNCHANGED <<options, started, start_owner, tpc, rom_arg, word, instr>>

\* A variant of pre_run that sets the flag and notifies nobody.
PreRun_no_notify ==
  /\ mainpc = "ready"
  /\ ~started
  /\ start_owner = "none"
  /\ started' = TRUE
  /\ UNCHANGED <<machine, options, delay, buzzer, timers_owner, start_owner, tpc,
                 mainpc, rom_arg, word, instr>>

\* Chip8VM::pre_run: lock, *started = true, notify_one, unlock.
PreRun ==
  /\ mainpc = "ready"
  /\ ~started
  /\ start_owner = "none"
  /\ started' = TRUE
  /\ tpc' = IF tpc = "waiting" THEN "relock" ELSE tpc
  /\ UNCHANGED <<machine, options, delay, buzzer, timers_owner, start_owner,
                 mainpc, rom_arg, word, instr>>

(***************************************************************************)
(* The decay thread of TimersWrapper::new.  A panic of the caller ends the *)
(* process, and the thread with it.                                        *)
(***************************************************************************)
\* u8::saturating_sub.
saturating_sub(a, b) == IF a >= b THEN a - b ELSE 0

\* A variant of Timers::update with u8::wrapping_sub for saturating_sub.
wrapping_sub(a, b) == (a - b + 256) % 256
Timers_update_wrapping(t) ==
  [delay |-> wrapping_sub(t.delay, 1), buzzer |-> wrapping_sub(t.buzzer, 1)]

\* A variant of Timers::update that leaves the buzzer counter alone.
Timers_update_delay_only(t) ==
  [delay |-> saturating_sub(t.delay, 1), buzzer |-> t.buzzer]

\* Timers::update.
Timers_update(t) ==
  [delay |-> saturating_sub(t.delay, 1), buzzer |-> saturating_sub(t.buzzer, 1)]

\* let mut started = lock.lock().unwrap();
TimerLock ==
  /\ mainpc # "panic"
  /\ tpc = "lock"
  /\ start_owner = "none"
  /\ start_owner' = "decay"
  /\ tpc' = "check"
  /\ UNCHANGED <<machine, options, delay, buzzer, timers_owner, started, mainpc,
                 rom_arg, word, instr>>

\* A variant of the decay thread that does not wait for the start flag.
TimerCheck_no_wait ==
  /\ mainpc # "panic"
  /\ tpc = "check"
  /\ tpc' = "sleep"
  /\ UNCHANGED <<machine, options, delay, buzzer, timers_owner, started,
                 start_owner, mainpc, rom_arg, word, instr>>

\* while !*started { started = cvar.wait(started).unwrap(); }
TimerCheck ==
  /\ mainpc # "panic"
  /\ tpc = "check"
  /\ IF started
     THEN /\ tpc' = "sleep"
          /\ UNCHANGED start_owner
     ELSE /\ tpc' = "waiting"
          /\ start_owner' = "none"
  /\ UNCHANGED <<machine, options, delay, buzzer, timers_owner, started, mainpc,
                 rom_arg, word, instr>>

\* Condvar::wait may return without a notification.
TimerSpuriousWake ==
  /\ mainpc # "panic"
  /\ tpc = "waiting"
  /\ tpc' = "relock"
  /\ UNCHANGED <<machine, options, delay, buzzer, timers_owner, started,
                 start_owner, mainpc, rom_arg, word, instr>>

\* cvar.wait takes the mutex again before it returns.
TimerRelock ==
  /\ mainpc # "panic"
  /\ tpc = "relock"
  /\ start_owner = "none"
  /\ start_owner' = "decay"
  /\ tpc' = "check"
  /\ UNCHANGED <<machine, options, delay, buzzer, timers_owner, started, mainpc,
                 rom_arg, word, instr>>

\* thread::sleep(wait)
TimerSleep ==
  /\ mainpc # "panic"
  /\ tpc = "sleep"
  /\ tpc' = "tick"
  /\ UNCHANGED <<machine, options, delay, buzzer, timers_owner, started,
                 start_owner, mainpc, rom_arg, word, instr>>

\* A variant of the decay thread that updates without the lock.
TimerAcquire_no_lock ==
  /\ mainpc # "panic"
  /\ tpc = "tick"
  /\ timers_owner' = "decay"
  /\ tpc' = "update"
  /\ UNCHANGED <<machine, options, delay, buzzer, started, start_owner, mainpc,
                 rom_arg, word, instr>>

\* A variant in which the read of a key keeps the decay thread from the lock.
TimerAcquire_not_during_read ==
  /\ mainpc \notin {"panic", "wait_key"}
  /\ tpc = "tick"
  /\ timers_owner = "none"
  /\ timers_owner' = "decay"
  /\ tpc' = "update"
  /\ UNCHANGED <<machine, options, delay, buzzer, started, start_owner, mainpc,
                 rom_arg, word, instr>>

\* timer.lock()
TimerAcquire ==
  /\ mainpc # "panic"
  /\ tpc = "tick"
  /\ timers_owner = "none"
  /\ timers_owner' = "decay"
  /\ tpc' = "update"
  /\ UNCHANGED <<machine, options, delay, buzzer, started, start_owner, mainpc,
                 rom_arg, word, instr>>

\* .update(), the unlock, and the end of the iteration, where the guard of the
\* start flag is dropped.
TimerUpdate ==
  /\ mainpc # "panic"
  /\ tpc = "update"
  /\ timers_owner = "decay"
  /\ LET t == Timers_update([delay |-> delay, buzzer |-> buzzer])
     IN /\ delay' = t.delay
        /\ buzzer' = t.buzzer
  /\ timers_owner' = "none"
  /\ start_owner' = "none"
  /\ tpc' = "lock"
  /\ UNCHANGED <<machine, options, started, mainpc, rom_arg, word, instr>>

DecayThread ==
  \/ TimerLock
  \/ TimerCheck
  \/ TimerSpuriousWake
  \/ TimerRelock
  \/ TimerSleep
  \/ TimerAcquire
  \/ TimerUpdate

(***************************************************************************)
(* Program images.                                                         *)
(***************************************************************************)
\* The instruction word of family f with the fields x, y, n.
Enc(f, x, y, n) == f * 4096 + x * 256 + y * 16 + n

\* The image of a sequence of words, big-endian, followed by data bytes.
Asm(words, data) ==
  [k \in 1..(2 * Len(words) + Len(data)) |->
     IF k > 2 * Len(words) THEN data[k - 2 * Len(words)]
     ELSE IF k % 2 = 1 THEN words[(k + 1) \div 2] \div 256
     ELSE words[k \div 2] % 256]

\* A jump to its own address, the k-th word of the image: the program idles.
Idle(k) == Enc(1, 0, 0, 0) + RAM_ROM_START + 2 * (k - 1)

\* Images of several lengths around nothing and around the capacity.
MaxStride == 2
LoadLens ==
  (0..MaxSmallLen) \cup
  ((RAM_SIZE - RAM_ROM_START - MaxNearLen)..(RAM_SIZE - RAM_ROM_START + MaxNearLen))
LoadRoms ==
  {Image(len, fill, stride) : len \in LoadLens, fill \in ByteSamples, stride \in 0..MaxStride}

\* Vx = random, Vy = random, then 8xyN, for every x, y and the operations ops.
AluRoms(ops) ==
  {Asm(<<Enc(12, x, 15, 15), Enc(12, y, 15, 15), Enc(8, x, y, op), Idle(4)>>, <<>>) :
     x \in Regs, y \in Regs, op \in ops}

ArithRoms == AluRoms({4, 5, 7})
ShiftRoms == AluRoms({6, 14})

\* The programs that run with the timers going.
MainRoms ==
  { \* delay = 255, then idle
    Asm(<<Enc(6, 0, 15, 15), Enc(15, 0, 1, 5), Idle(3)>>, <<>>),
    \* delay = 2, buzzer = 1, then V1 = delay for ever
    Asm(<<Enc(6, 0, 0, 2), Enc(15, 0, 1, 5), Enc(6, 0, 0, 1), Enc(15, 0, 1, 8),
          Enc(15, 1, 0, 7), Enc(1, 2, 0, 8)>>, <<>>),
    \* V0 = key, then an unknown instruction
    Asm(<<Enc(15, 0, 0, 10), Enc(15, 0, 15, 15)>>, <<>>),
    \* nothing that fits
    Image(RAM_SIZE - RAM_ROM_START + 1, 1, 0) }

(***************************************************************************)
(* The specifications.                                                     *)
(***************************************************************************)
\* The body of the loop of Chip8VM::run, which pre_run precedes.
RunLoop == started /\ RunOnce

\* main: new, load_rom, run, with the decay thread beside it.
Next ==
  \/ LoadRom(MainRoms)
  \/ PreRun
  \/ RunLoop
  \/ ReadKey
  \/ TimersAccess
  \/ DecayThread

Spec == Init /\ [][Next]_vars

\* The scheduler runs the decay thread whenever it can take a step, and lets
\* an instruction that holds the lock of the timers finish.  The execution
\* loop sleeps between two instructions, so the lock is free again and again
\* and the decay thread gets it.  Nothing makes the loop fetch its next
\* instruction, a line arrive on stdin, or a condition variable wake spuriously.
Fairness ==
  /\ WF_vars(TimersAccess)
  /\ WF_vars(TimerLock)
  /\ WF_vars(TimerCheck)
  /\ WF_vars(TimerRelock)
  /\ WF_vars(TimerSleep)
  /\ SF_vars(TimerAcquire)
  /\ WF_vars(TimerUpdate)

SpecLive == Spec /\ Fairness

\* The public methods in any order: run_once may be called before pre_run, and
\* the decay thread runs from construction on.
NextApi ==
  \/ LoadRom(MainRoms)
  \/ PreRun
  \/ RunOnce
  \/ ReadKey
  \/ TimersAccess
  \/ DecayThread

SpecApi == Init /\ [][NextApi]_vars

\* load_rom on a new machine, as the tests load_empty, load_fit and
\* load_too_big call it.
NextLoad == LoadRom(LoadRoms)
SpecLoad == Init /\ [][NextLoad]_vars

\* run_once after load_rom, without pre_run: the decay thread is never started.
NextArith == LoadRom(ArithRoms) \/ RunOnce
SpecArith == Init /\ [][NextArith]_vars

ShiftOptions == {o \in OptionSets : ~o.incr_i_when_mem /\ ~o.new_jump_off}
InitShift == InitWith(ShiftOptions)
NextShift == LoadRom(ShiftRoms) \/ RunOnce
SpecShift == InitShift /\ [][NextShift]_vars

\* Sprites are drawn at origins within EdgeWidth of the left edge, of the last
\* column where eight pixels fit, and of the right edge; of the top and of the
\* bottom; with 0..MaxSpriteHeight rows.
MaxSpriteHeight == 2
XSamples ==
  {x \in 0..(DISPLAY_WIDTH - 1) :
     \/ x <= EdgeWidth
     \/ (x >= DISPLAY_WIDTH - 8 - EdgeWidth /\ x <= DISPLAY_WIDTH - 8 + EdgeWidth)
     \/ x >= DISPLAY_WIDTH - 1 - EdgeWidth}
YSamples ==
  {y \in 0..(DISPLAY_HEIGHT - 1) : y <= EdgeWidth \/ y >= DISPLAY_HEIGHT - 1 - EdgeWidth}

\* The sprite rows a, b, a, b, ...
SpriteData(a, b) == [k \in 1..(MaxSpriteHeight + 1) |-> IF k % 2 = 1 THEN a ELSE b]

\* VF = 1, V0 = x, V1 = y; I = the sprite, draw n rows at (V0, V1); I = the
\* sprite from its second row on, draw again; idle.  The sprite follows the
\* eight words of the program.
DrawRoms ==
  {Asm(<<Enc(6, 15, 0, 1), Enc(6, 0, x \div 16, x % 16), Enc(6, 1, y \div 16, y % 16),
         Enc(10, 0, 0, 0) + RAM_ROM_START + 16, Enc(13, 0, 1, n),
         Enc(10, 0, 0, 0) + RAM_ROM_START + 17, Enc(13, 0, 1, n),
         Idle(8)>>, SpriteData(a, b)) :
     x \in XSamples, y \in YSamples, n \in 0..MaxSpriteHeight,
     a \in ByteSamples, b \in ByteSamples}

NextDraw == LoadRom(DrawRoms) \/ RunOnce
SpecDraw == Init /\ [][NextDraw]_vars

\* A Call after 0..MaxPrefix other instructions, to a Return among the data, at
\* an even or an odd address; nested, the Call is to a second Call, which a
\* Return follows.
MaxPrefix == 3
ReturnData == <<0, 238, 0, 0, 238, 0, 238>>
ReturnOffsets == {0, 3, 5}
CallProgram(k, off, nested) ==
  LET nwords == k + (IF nested THEN 4 ELSE 2)
      target == RAM_ROM_START + 2 * nwords + off
      inner == RAM_ROM_START + 2 * (k + 2)
      prefix == [j \in 1..k |-> Enc(6, 0, 0, j)]
  IN Asm(prefix \o
           (IF nested
            THEN <<Enc(2, 0, 0, 0) + inner, Idle(k + 2), Enc(2, 0, 0, 0) + target,
                   Enc(0, 0, 14, 14)>>
            ELSE <<Enc(2, 0, 0, 0) + target, Idle(k + 2)>>),
         ReturnData)
CallRoms ==
  {CallProgram(k, off, nested) : k \in 0..MaxPrefix, off \in ReturnOffsets, nested \in BOOLEAN}

NextCall == LoadRom(CallRoms) \/ RunOnce
SpecCall == Init /\ [][NextCall]_vars

\* V0 = 7, an instruction that cannot be executed, V1 = 1, idle.  The
\* instruction is a Return (after 0..MaxPrefix more instructions), a word of
\* family 8 with a low nibble that names no operation, or a word of family F
\* with a low byte that names none.  The last program calls a Return, so that
\* the Return after the Call finds the stack emptied.
UnsupportedOps == {8, 9, 10, 11, 12, 13, 15}
UnknownLowBytes == {0, 1, 6, 8, 86, 100, 255}
HaltProgram(bad, k) ==
  Asm(<<Enc(6, 0, 0, 7)>> \o [j \in 1..k |-> Enc(6, 2, 0, j)] \o
      <<bad, Enc(6, 1, 0, 1), Idle(k + 4)>>, <<>>)
HaltRoms ==
  {HaltProgram(Enc(0, 0, 14, 14), k) : k \in 0..MaxPrefix}
  \cup {HaltProgram(Enc(8, x, 1, n), 0) : x \in Regs, n \in UnsupportedOps}
  \cup {HaltProgram(Enc(15, x, 0, 0) + nn, 0) : x \in {0, 15}, nn \in UnknownLowBytes}
  \cup {Asm(<<Enc(2, 0, 0, 0) + RAM_ROM_START + 6, Enc(0, 0, 14, 14),
              Enc(6, 1, 0, 1), Enc(0, 0, 14, 14)>>, <<>>)}

NextHalt == LoadRom(HaltRoms) \/ RunOnce
SpecHalt == Init /\ [][NextHalt]_vars

\* Programs that move pc and I about:
\*   a jump to the odd address 0x203, where V0 = 1 and a jump to itself lie;
\*   an image that fills the memory, with a jump to its last word, V0 = 1;
\*   V0 = a, VF = 1, then a jump with offset from 0xF00 or 0xFFF;
\*   I = 0xFFF, V0 = a, then I += V0 twice.
OddJumpRom == <<18, 3, 0, 96, 1, 18, 5>>
TopRom ==
  [k \in 1..(RAM_SIZE - RAM_ROM_START) |->
     CASE k = 1 -> 31
       [] k = 2 -> 254
       [] k = RAM_SIZE - RAM_ROM_START - 1 -> 96
       [] k = RAM_SIZE - RAM_ROM_START -> 1
       [] OTHER -> 0]
JumpOffBases == {3840, 4095}
JumpRoms ==
  {OddJumpRom, TopRom}
  \cup {Asm(<<Enc(6, 0, a \div 16, a % 16), Enc(6, 15, 0, 1), Enc(11, 0, 0, 0) + nnn>>, <<>>) :
          a \in ByteSamples, nnn \in JumpOffBases}
  \cup {Asm(<<Enc(10, 15, 15, 15), Enc(6, 0, a \div 16, a % 16), Enc(15, 0, 1, 14),
              Enc(15, 0, 1, 14), Idle(5)>>, <<>>) : a \in ByteSamples}

JumpOptions == {o \in OptionSets : ~o.incr_i_when_mem /\ ~o.old_shift}
InitJump == InitWith(JumpOptions)
NextJump == LoadRom(JumpRoms) \/ RunOnce
SpecJump == InitJump /\ [][NextJump]_vars

\* Vx = random, then 3xnn or 4xnn; Vx = random, Vy = random, then 5xy0 or
\* 9xy0; a jump to itself at each of the two addresses that may follow.
SkipRoms ==
  {Asm(<<Enc(12, x, 15, 15), Enc(f, x, nn \div 16, nn % 16), Idle(3), Idle(4)>>, <<>>) :
     f \in {3, 4}, x \in Regs, nn \in ByteSamples}
  \cup {Asm(<<Enc(12, x, 15, 15), Enc(12, y, 15, 15), Enc(f, x, y, 0), Idle(4), Idle(5)>>,
            <<>>) :
          f \in {5, 9}, x \in Regs, y \in {0, 15}}

NextSkip == LoadRom(SkipRoms) \/ RunOnce
SpecSkip == Init /\ [][NextSkip]_vars

\* Vk = 0xA0 + k for every k, I = 0x300, Fx55, idle; and I = the data
\* 0xB0 .. 0xBF after the program, Fx65, idle; for every x, with
\* incr_i_when_mem off and on.
SaveProgram(x) ==
  Asm([k \in 1..16 |-> Enc(6, k - 1, 10, k - 1)] \o
      <<Enc(10, 3, 0, 0), Enc(15, x, 5, 5), Idle(19)>>, <<>>)
LoadProgram(x) ==
  Asm(<<Enc(10, 0, 0, 0) + RAM_ROM_START + 6, Enc(15, x, 6, 5), Idle(3)>>,
      [k \in 1..16 |-> 176 + k - 1])
MemRoms == {SaveProgram(x) : x \in Regs} \cup {LoadProgram(x) : x \in Regs}

MemOptions == {o \in OptionSets : ~o.new_jump_off /\ ~o.old_shift}
InitMem == InitWith(MemOptions)
NextMem == LoadRom(MemRoms) \/ RunOnce
SpecMem == InitMem /\ [][NextMem]_vars

\* One program with an instruction of every variant that execute implements,
\* the timer instructions and GetKey near its end, run with the decay thread
\* beside it.  The subroutine called by the second word is the last word.
FrameWords ==
  <<Enc(0, 0, 14, 0), Enc(2, 0, 0, 0) + RAM_ROM_START + 70,
    Enc(6, 0, 0, 5), Enc(7, 0, 0, 1), Enc(8, 1, 0, 0), Enc(8, 0, 1, 1),
    Enc(8, 0, 1, 4), Enc(8, 0, 1, 6),
    Enc(3, 0, 0, 0), Enc(6, 2, 0, 0), Enc(4, 0, 0, 0), Enc(6, 2, 0, 0),
    Enc(5, 0, 1, 0), Enc(6, 2, 0, 0), Enc(9, 0, 1, 0), Enc(6, 2, 0, 0),
    Enc(10, 3, 0, 0), Enc(12, 0, 0, 0), Enc(13, 0, 1, 1),
    Enc(14, 0, 9, 14), Enc(14, 0, 10, 1),
    Enc(15, 0, 1, 14), Enc(15, 0, 2, 9), Enc(10, 3, 0, 0),
    Enc(15, 0, 3, 3), Enc(15, 0, 5, 5), Enc(15, 0, 6, 5),
    Enc(6, 0, 0, 3), Enc(15, 0, 1, 5), Enc(15, 0, 1, 8), Enc(15, 1, 0, 7),
    Enc(15, 2, 0, 10), Enc(6, 0, 0, 0), Enc(11, 0, 0, 0) + RAM_ROM_START + 68,
    Idle(35), Enc(0, 0, 14, 14)>>
FrameRoms == {Asm(FrameWords, <<>>)}

NextFrame ==
  \/ LoadRom(FrameRoms)
  \/ PreRun
  \/ RunOnce
  \/ ReadKey
  \/ TimersAccess
  \/ DecayThread

SpecFrame == Init /\ [][NextFrame]_vars

\* Programs that write a counter from V0 and then leave it alone, or go on
\* writing it; whenever GetDelay runs, V0 is the value SetDelay wrote last.
DecayRoms ==
  { \* delay = 3, then V1 = delay for ever
    Asm(<<Enc(6, 0, 0, 3), Enc(15, 0, 1, 5), Enc(15, 1, 0, 7), Enc(1, 2, 0, 4)>>, <<>>),
    \* delay = 3, V1 = delay, delay = 2, then V1 = delay for ever
    Asm(<<Enc(6, 0, 0, 3), Enc(15, 0, 1, 5), Enc(15, 1, 0, 7), Enc(6, 0, 0, 2),
          Enc(15, 0, 1, 5), Enc(15, 1, 0, 7), Enc(1, 2, 0, 10)>>, <<>>),
    \* delay = 2 for ever
    Asm(<<Enc(6, 0, 0, 2), Enc(15, 0, 1, 5), Enc(1, 2, 0, 2)>>, <<>>),
    \* buzzer = 2, then idle
    Asm(<<Enc(6, 0, 0, 2), Enc(15, 0, 1, 8), Idle(3)>>, <<>>),
    \* buzzer = 2 for ever
    Asm(<<Enc(6, 0, 0, 2), Enc(15, 0, 1, 8), Enc(1, 2, 0, 2)>>, <<>>) }

NextDecay ==
  \/ LoadRom(DecayRoms)
  \/ PreRun
  \/ RunLoop
  \/ TimersAccess
  \/ DecayThread

SpecDecay == Init /\ [][NextDecay]_vars /\ Fairness

(***************************************************************************)
(* The properties.                                                         *)
(***************************************************************************)
\* A step of load_rom.
LoadStep == mainpc = "new" /\ mainpc' # "new"

\* A step of run_once that executed an instruction of variant op to its end.
RanStep(op) ==
  /\ mainpc = "ready"
  /\ mainpc' = "ready"
  /\ instr'[1] = op
  /\ UNCHANGED <<started, start_owner, tpc>>

\* A step of the decay thread that updated the timers.
TickStep == tpc = "update" /\ tpc' = "lock"

\* The pixels of a framebuffer that are on.
Lit(d) ==
  {p \in (0..(DISPLAY_WIDTH - 1)) \X (0..(DISPLAY_HEIGHT - 1)) : d[p[2]][p[1]]}

\* C1: load_rom accepts an image exactly when it has at most 3584 bytes, and a
\* rejected load leaves the memory, the registers and all the rest as they were.
C1_LoadBoundary ==
  [][LoadStep =>
       /\ (mainpc' = "ready") <=> (Len(rom_arg') <= 3584)
       /\ (mainpc' = "panic") <=> (Len(rom_arg') >= 3585)
       /\ mainpc' = "panic" =>
            /\ \A a \in 0..4095 : ram'[a] = ram[a]
            /\ UNCHANGED <<display, v, pc, i, stack, delay, buzzer>>]_vars

\* C1: an image of 3585 bytes was rejected and the memory is as constructed.
C1_Witness ==
  /\ mainpc = "panic"
  /\ Len(rom_arg) = 3585
  /\ \A a \in 0..4095 : ram[a] = init_ram(FONT)[a]

\* C2: a successful load_rom writes rom[k] at 0x200 + k and leaves every other
\* byte, the font among them, unchanged; an empty image changes nothing.
C2_LoadVerbatim ==
  [][(LoadStep /\ mainpc' = "ready") =>
       /\ \A k \in 0..(Len(rom_arg') - 1) : ram'[512 + k] = rom_arg'[k + 1]
       /\ \A a \in 0..4095 : (a < 512 \/ a >= 512 + Len(rom_arg')) => ram'[a] = ram[a]
       /\ \A k \in 0..79 : ram'[80 + k] = FONT[k + 1]
       /\ Len(rom_arg') = 0 => ram' = ram]_vars

\* C2: an image that fills the memory to its last byte was loaded.
C2_Witness ==
  /\ mainpc = "ready"
  /\ Len(rom_arg) = 3584
  /\ ram[512] = 254
  /\ ram[513] = 255
  /\ ram[4095] = rom_arg[3584]
  /\ ram[511] = 0

\* C3: a word of a documented pattern decodes to the documented variant with
\* the fields x = bits 8-11, y = bits 4-7, n = bits 0-3, nn = bits 0-7,
\* nnn = bits 0-11.
C3_DecodeDocumented ==
  instr # NoInstr =>
    LET f == word \div 4096
        x == (word \div 256) % 16
        y == (word \div 16) % 16
        n == word % 16
        nn == word % 256
        nnn == word % 4096
    IN /\ word = 224 => instr = <<"Clear">>
       /\ word = 238 => instr = <<"Return">>
       /\ f = 1 => instr = <<"Jump", nnn>>
       /\ f = 2 => instr = <<"Call", nnn>>
       /\ f = 6 => instr = <<"Set", x, nn>>
       /\ f = 7 => instr = <<"Add", x, nn>>
       /\ f = 10 => instr = <<"SetI", nnn>>
       /\ f = 13 => instr = <<"Display", x, y, n>>
       /\ (f = 15 /\ nn = 85) => instr = <<"Save", x>>
       /\ (f = 15 /\ nn = 101) => instr = <<"Load", x>>

\* C3: 0xD6FA was decoded, to Display(6, 0xF, 0xA).
C3_Witness == word = 55034 /\ instr = <<"Display", 6, 15, 10>>

\* C4: a word of no documented pattern decodes to Unknown: in family 0 all
\* but 0x00E0 and 0x00EE, in family 8 a low nibble outside 0-7 and E, in
\* family E a low byte other than 0x9E and 0xA1, in family F a low byte other
\* than 07, 0A, 15, 18, 1E, 29, 33, 55, 65.
C4_UndocumentedUnknown ==
  instr # NoInstr =>
    LET f == word \div 4096
        n == word % 16
        nn == word % 256
    IN /\ (f = 0 /\ word \notin {224, 238}) => instr = <<"Unknown">>
       /\ (f = 8 /\ n \notin {0, 1, 2, 3, 4, 5, 6, 7, 14}) => instr = <<"Unknown">>
       /\ (f = 14 /\ nn \notin {158, 161}) => instr = <<"Unknown">>
       /\ (f = 15 /\ nn \notin {7, 10, 21, 24, 30, 41, 51, 85, 101}) =>
            instr = <<"Unknown">>

\* C5: after 8xy4, 8xy5 and 8xy7, for every x and y, VF holds the flag (carry,
\* no borrow of Vx - Vy, no borrow of Vy - Vx), and Vx the result modulo 256
\* when x is not 0xF.
C5_ArithFlags ==
  [][RanStep("ArithmOp") =>
       LET x == instr'[2]
           y == instr'[3]
           op == instr'[4]
           a == v[x]
           b == v[y]
       IN /\ op = 4 => /\ v'[15] = (IF a + b > 255 THEN 1 ELSE 0)
                       /\ x # 15 => v'[x] = (a + b) % 256
          /\ op = 5 => /\ v'[15] = (IF a >= b THEN 1 ELSE 0)
                       /\ x # 15 => v'[x] = (a - b + 256) % 256
          /\ op = 7 => /\ v'[15] = (IF b >= a THEN 1 ELSE 0)
                       /\ x # 15 => v'[x] = (b - a + 256) % 256]_vars

\* C6: after 8xy6, for every x and y, VF is the low bit of the shifted value
\* and Vx its half; after 8xyE, VF is its high bit and Vx its double modulo
\* 256 (Vx when x is not 0xF).  The shifted value is Vx, or Vy with old_shift.
C6_ShiftFlags ==
  [][(RanStep("ShiftOp") /\ instr'[4] \in {6, 14}) =>
       LET x == instr'[2]
           y == instr'[3]
           op == instr'[4]
           val == IF options.old_shift THEN v[y] ELSE v[x]
       IN /\ op = 6 => /\ v'[15] = val % 2
                       /\ x # 15 => v'[x] = val \div 2
          /\ op = 14 => /\ v'[15] = val \div 128
                        /\ x # 15 => v'[x] = (val * 2) % 256]_vars

\* C6: 8xyE with old_shift has just shifted Vy = 0x80 into Vx = 0 and VF = 1.
C6_Witness ==
  /\ mainpc = "ready"
  /\ options.old_shift
  /\ instr[1] = "ShiftOp"
  /\ instr[4] = 14
  /\ instr[2] = 3
  /\ instr[3] = 4
  /\ v[4] = 128
  /\ v[3] = 0
  /\ v[15] = 1

\* The origin of the sprite a Display instruction ins draws, and its rows.
OriginX(ins) == v[ins[2]] % 64
OriginY(ins) == v[ins[3]] % 32

\* The bit of a sprite row for column c, the leftmost column being the most
\* significant bit (as the glyphs of FONT are laid out).
SpriteBit(byte, c) == (byte \div Pow2(7 - c)) % 2 = 1

\* Whether the sprite drawn by ins at the index register targets pixel p with
\* a bit that is on.
SpriteHits(ins, p) ==
  LET c == p[1] - OriginX(ins)
      r == p[2] - OriginY(ins)
  IN /\ c >= 0
     /\ c < 8
     /\ r >= 0
     /\ r < ins[4]
     /\ SpriteBit(ram[i + r], c)

\* C7: on an empty framebuffer, one row 0xFF drawn at an origin where it fits
\* (x <= 56) sets exactly 8 pixels and leaves VF at 0; drawn again at the same
\* origin it clears them all and sets VF to 1.
C7_DrawTwice ==
  [][(/\ RanStep("Display")
      /\ instr'[4] = 1
      /\ ram[i] = 255
      /\ OriginX(instr') <= 56) =>
       /\ display = DISPLAY_EMPTY =>
            /\ Cardinality(Lit(display')) = 8
            /\ v'[15] = 0
       /\ (/\ display # DISPLAY_EMPTY
           /\ display =
                draw_sprite([Machine EXCEPT !.display = DISPLAY_EMPTY],
                            OriginX(instr'), OriginY(instr'), i, 1).display) =>
            /\ display' = DISPLAY_EMPTY
            /\ v'[15] = 1]_vars

\* C8: after a Display instruction VF is 1 if a pixel that was on has been
\* turned off, and 0 otherwise.
C8_CollisionFlag ==
  [][RanStep("Display") =>
       v'[15] = (IF \E p \in Lit(display) : ~display'[p[2]][p[1]] THEN 1 ELSE 0)]_vars

\* C9: a sprite that reaches past the right or the bottom edge still has every
\* target pixel on the display XORed with its bit, no other pixel changed, and
\* a collision flag that only the pixels on the display decide.
C9_Clipping ==
  [][(/\ RanStep("Display")
      /\ \/ OriginX(instr') + 8 > 64
         \/ OriginY(instr') + instr'[4] > 32) =>
       /\ \A p \in (0..63) \X (0..31) :
            display'[p[2]][p[1]] = (display[p[2]][p[1]] # SpriteHits(instr', p))
       /\ v'[15] = (IF \E p \in Lit(display) : SpriteHits(instr', p) THEN 1 ELSE 0)]_vars

\* C10: a tick replaces each counter by max(counter - 1, 0), and both counters
\* are always in 0..255.
C10_TimerSaturation ==
  /\ [](delay \in 0..255 /\ buzzer \in 0..255)
  /\ [][TickStep =>
          /\ delay' = (IF delay > 0 THEN delay - 1 ELSE 0)
          /\ buzzer' = (IF buzzer > 0 THEN buzzer - 1 ELSE 0)]_vars

\* C10: after SetDelay put 255 in delay, a tick has brought it to 254 and has
\* left buzzer at 0.
C10_Witness ==
  /\ started
  /\ tpc = "lock"
  /\ instr[1] = "Jump"
  /\ v[0] = 255
  /\ delay = 254
  /\ buzzer = 0

\* C11: a Call fetched at a pushes a + 2 and goes to nnn, and a Return executed
\* right after a Call pops what that Call pushed: pc is a + 2 and the stack is
\* as it was before the Call.
C11_CallReturn ==
  /\ [][RanStep("Call") =>
          /\ stack' = Append(stack, pc + 2)
          /\ pc' = instr'[2]]_vars
  /\ [][(RanStep("Return") /\ instr[1] = "Call") =>
          /\ pc' = stack[Len(stack)]
          /\ stack' = SubSeq(stack, 1, Len(stack) - 1)
          /\ fetch_instruction(ram, pc' - 2) = word]_vars

\* C11: the Call at 0x204, made with 0x202 on the stack, has returned to 0x206.
C11_Witness ==
  /\ mainpc = "ready"
  /\ instr = <<"Return">>
  /\ pc = 518
  /\ stack = <<514>>
  /\ ram[516] * 256 + ram[517] = 8192 + 523

\* C12: as long as the start flag is false the decay thread is before its
\* sleep, and a step changes a counter only if it is SetDelay or SetBuzzer
\* writing the register's value to it.
C12_NoTickBeforeStart ==
  /\ [](~started => tpc \in {"lock", "check", "waiting", "relock"})
  /\ [][~started' =>
          \/ UNCHANGED <<delay, buzzer>>
          \/ /\ mainpc = "timers_cs"
             /\ instr[1] = "SetDelay"
             /\ delay' = v[instr[2]]
             /\ buzzer' = buzzer
          \/ /\ mainpc = "timers_cs"
             /\ instr[1] = "SetBuzzer"
             /\ buzzer' = v[instr[2]]
             /\ delay' = delay]_vars

\* C12: without the start signal, the program has set delay to 2 and buzzer to
\* 1, has read delay as 2 and loops, the decay thread waiting.
C12_Witness ==
  /\ ~started
  /\ tpc = "waiting"
  /\ instr[1] = "Jump"
  /\ v[1] = 2
  /\ delay = 2
  /\ buzzer = 1

\* C13: once started, the decay thread gets to its update again and again and
\* completes it, whether the signal came before its first check of the flag or
\* while it waited, as long as a panic of the execution loop has not ended the
\* process.
C13_StartLeadsToTicks ==
  /\ started ~> (tpc = "update" \/ mainpc = "panic")
  /\ (tpc = "update") ~> (tpc = "lock" \/ mainpc = "panic")

\* C13: started, the decay thread has ticked twice and starts its next round.
C13_Witness ==
  /\ started
  /\ tpc = "lock"
  /\ mainpc = "wait_key"
  /\ delay = DELAY_INIT - 2

\* C14: the decay thread's update and an instruction's access to a counter are
\* never both inside the critical section; each holds the lock while inside;
\* while one is inside, no step of the other changes a counter; and the update
\* of both counters is one step, in which no instruction takes part.
C14_MutualExclusion ==
  /\ [](~(tpc = "update" /\ mainpc = "timers_cs"))
  /\ [](tpc = "update" => timers_owner = "decay")
  /\ [](mainpc = "timers_cs" => timers_owner = "main")
  /\ [][(mainpc = "timers_cs" /\ mainpc' = "timers_cs") => UNCHANGED <<delay, buzzer>>]_vars
  /\ [][(tpc = "update" /\ tpc' = "update") => UNCHANGED <<delay, buzzer>>]_vars
  /\ [][TickStep => UNCHANGED <<v, mainpc, instr>>]_vars

\* C14: GetDelay holds the lock while the decay thread, its sleep over, is
\* about to ask for it.
C14_Witness ==
  /\ started
  /\ mainpc = "timers_cs"
  /\ instr[1] = "GetDelay"
  /\ timers_owner = "main"
  /\ tpc = "tick"

\* C15: while the execution loop is blocked in GetKey, the started decay
\* thread gets to its update and completes it, and the update decrements each
\* counter that is not 0.
C15_TicksDuringKeyWait ==
  /\ (started /\ mainpc = "wait_key") ~> (tpc = "update" \/ mainpc # "wait_key")
  /\ (tpc = "update" /\ mainpc = "wait_key") ~> (tpc = "lock" \/ mainpc # "wait_key")
  /\ [][(TickStep /\ mainpc = "wait_key") =>
          /\ mainpc' = "wait_key"
          /\ delay > 0 => delay' = delay - 1
          /\ buzzer > 0 => buzzer' = buzzer - 1]_vars

\* C15: blocked in GetKey, with delay at 1 and the decay thread in its update.
C15_Witness ==
  /\ started
  /\ mainpc = "wait_key"
  /\ tpc = "update"
  /\ delay = 1

\* The word w cannot be executed with the call stack stk: a Return that finds
\* the stack empty, a word of family 8 whose low nibble is none of 0-7 and E,
\* a word of family F whose low byte is none of the documented ones.
Malformed(w, stk) ==
  \/ w = 238 /\ stk = <<>>
  \/ w \div 4096 = 8 /\ w % 16 \notin {0, 1, 2, 3, 4, 5, 6, 7, 14}
  \/ w \div 4096 = 15 /\ w % 256 \notin {7, 10, 21, 24, 30, 41, 51, 85, 101}

\* C16: run_once on a malformed instruction halts the engine, and a halted
\* engine takes no further step.
C16_MalformedHalts ==
  /\ [][(/\ mainpc = "ready"
          /\ ~fetch_panics(ram, pc)
          /\ Malformed(fetch_instruction(ram, pc), stack)) =>
          mainpc' = "panic"]_vars
  /\ [][mainpc # "panic"]_vars

\* C16: 8F18 has halted the engine; the instruction after it, V1 = 1, has not
\* been executed.
C16_Witness ==
  /\ mainpc = "panic"
  /\ word = 36632
  /\ instr = <<"ArithmOp", 15, 1, 8>>
  /\ pc = 516
  /\ v[0] = 7
  /\ v[1] = 0

\* C17: whenever run_once fetches a word, the pc it has advanced past the
\* word is even.
C17_PcEvenAfterFetch ==
  [][(mainpc = "ready" /\ ~fetch_panics(ram, pc)) => incr_pc(Machine).pc % 2 = 0]_vars

\* C18: the program counter and the index register are always in 0..0xFFF.
C18_TwelveBitRegisters == pc \in 0..4095 /\ i \in 0..4095

\* C19: 3xnn skips the next instruction exactly when Vx = nn, 4xnn when
\* Vx # nn, 5xy0 when Vx = Vy, 9xy0 when Vx # Vy; otherwise pc is at the next
\* instruction; and nothing but pc changes.
C19_SkipMapping ==
  [][(/\ mainpc = "ready"
      /\ mainpc' = "ready"
      /\ \/ word' \div 4096 \in {3, 4}
         \/ word' \div 4096 \in {5, 9} /\ word' % 16 = 0) =>
       LET f == word' \div 4096
           x == (word' \div 256) % 16
           y == (word' \div 16) % 16
           nn == word' % 256
           skips == CASE f = 3 -> v[x] = nn
                      [] f = 4 -> v[x] # nn
                      [] f = 5 -> v[x] = v[y]
                      [] f = 9 -> v[x] # v[y]
       IN /\ word' = fetch_instruction(ram, pc)
          /\ pc' = (IF skips THEN pc + 4 ELSE pc + 2)
          /\ UNCHANGED <<v, ram, stack, display, i, delay, buzzer>>]_vars

\* C19: 4F80 at 0x202, with VF = 0x7F, has skipped the instruction at 0x204.
C19_Witness ==
  /\ mainpc = "ready"
  /\ word = 20352
  /\ instr = <<"IfE", 15, 128>>
  /\ v[15] = 127
  /\ pc = 518

\* C20: Fx55 copies V0..Vx to ram[I..I+x] and Fx65 copies ram[I..I+x] to
\* V0..Vx, nothing else of the registers and the memory changing; afterwards I
\* is its old value plus x + 1 with incr_i_when_mem, and unchanged without.
C20_BlockTransfer ==
  /\ [][RanStep("Save") =>
          LET x == instr'[2]
          IN /\ \A k \in 0..x : ram'[i + k] = v[k]
             /\ \A a \in 0..4095 : (a < i \/ a > i + x) => ram'[a] = ram[a]
             /\ v' = v
             /\ i' = (IF options.incr_i_when_mem THEN i + x + 1 ELSE i)]_vars
  /\ [][RanStep("Load") =>
          LET x == instr'[2]
          IN /\ \A k \in 0..x : v'[k] = ram[i + k]
             /\ \A k \in Regs : k > x => v'[k] = v[k]
             /\ ram' = ram
             /\ i' = (IF options.incr_i_when_mem THEN i + x + 1 ELSE i)]_vars

\* C21: a Display instruction changes only pixels of columns x..x+7 and rows
\* y..y+n-1 of its origin (x, y), and each pixel of the display changes
\* exactly when the sprite has a bit that is on for it, the bit of row r and
\* column c being for pixel (x+c, y+r).
C21_DrawFrame ==
  [][RanStep("Display") =>
       \A p \in (0..63) \X (0..31) :
         /\ display'[p[2]][p[1]] # display[p[2]][p[1]] =>
              /\ p[1] >= OriginX(instr')
              /\ p[1] <= OriginX(instr') + 7
              /\ p[2] >= OriginY(instr')
              /\ p[2] <= OriginY(instr') + instr'[4] - 1
         /\ display'[p[2]][p[1]] # display[p[2]][p[1]] <=> SpriteHits(instr', p)]_vars

\* An instruction of variant op is inside the critical section of the timers.
Accessing(op) == mainpc = "timers_cs" /\ instr[1] = op

\* C22: no step of the decay thread, the tick among them, changes the memory,
\* the registers, the framebuffer or the call stack; and a step that is not a
\* tick changes delay only if it is SetDelay and buzzer only if it is
\* SetBuzzer.
C22_SharedStateFrame ==
  /\ [][tpc' # tpc => UNCHANGED <<ram, v, display, stack, pc, i>>]_vars
  /\ [][TickStep => UNCHANGED <<ram, v, display, stack, pc, i, mainpc, instr>>]_vars
  /\ [][~TickStep =>
          /\ delay' # delay => Accessing("SetDelay") /\ buzzer' = buzzer
          /\ buzzer' # buzzer => Accessing("SetBuzzer") /\ delay' = delay]_vars

\* C22: the program has run to its end, GetDelay having read the 3 written by
\* SetDelay, and two ticks have brought both counters to 1.
C22_Witness ==
  /\ started
  /\ mainpc = "ready"
  /\ instr[1] = "Jump"
  /\ pc = RAM_ROM_START + 68
  /\ v[1] = 3
  /\ delay = 1
  /\ buzzer = 1

\* C23: started and the execution loop not ended by a panic, a counter that
\* from some point on no SetDelay, no SetBuzzer is about to write is from some
\* point on 0 for ever; a counter grows only in the step of the instruction
\* that writes it, to the register's value; and GetDelay reads the counter as
\* it is, which is at most V0, the value SetDelay wrote last.
C23_DecayToZero ==
  /\ <>[]~Accessing("SetDelay") => <>[](~started \/ mainpc = "panic" \/ delay = 0)
  /\ <>[]~Accessing("SetBuzzer") => <>[](~started \/ mainpc = "panic" \/ buzzer = 0)
  /\ [][delay' > delay => Accessing("SetDelay") /\ delay' = v[instr[2]]]_vars
  /\ [][buzzer' > buzzer => Accessing("SetBuzzer") /\ buzzer' = v[instr[2]]]_vars
  /\ [][Accessing("GetDelay") /\ mainpc' = "ready" =>
          /\ v'[instr[2]] = delay
          /\ v'[instr[2]] <= v[0]]_vars

\* C23: the 3 written by SetDelay has been read as 1 two ticks later, and a
\* third tick has brought the counter to 0.
C23_Witness ==
  /\ started
  /\ mainpc = "ready"
  /\ instr[1] = "Jump"
  /\ v[0] = 3
  /\ v[1] = 1
  /\ delay = 0

=============================================================================
